---- MODULE Spec2Model ----
(***************************************************************************)
(* pyEIA: the request base (eia/api/base.py) and the series query          *)
(* (eia/api/series.py) as a state machine.                                 *)
(*                                                                         *)
(* A Python str is a sequence of one-character strings, so that            *)
(* ";".join and a split on ";" are computed character by character.        *)
(* An optional str (None or a str) is a record [t, v].                     *)
(***************************************************************************)
EXTENDS Integers, Sequences, FiniteSets, TLC

VARIABLES
    settings_APIKEY,   \* eia.settings.APIKEY, the process-wide credential
    constructed,       \* "none" | "ok" | "TypeError" | "AssertionError"
    args,              \* positional arguments of the constructor call
    kwarg,             \* the apikey= keyword of the constructor call
    apikey,            \* self.apikey
    params,            \* self._params
    url,               \* self.url
    has_series_ids,    \* whether the attribute self.series_ids exists
    series_ids,        \* self.series_ids
    given,             \* the identifiers handed to __post_init__
    pc,                \* position of the caller / of the coroutine
    op,                \* the operation being driven
    include_metadata,  \* to_dataframe's option
    i,                 \* number of batches the loop of _get_data has finished
    conn,              \* open httpx.AsyncClient connections
    calls,             \* requests issued by the operation being driven
    group,             \* the response handed to parse, not yet consumed
    consumed,          \* the responses parse has consumed
    output,            \* parse's output list
    result             \* what the last operation returned or raised

vars == <<settings_APIKEY, constructed, args, kwarg, apikey, params, url,
          has_series_ids, series_ids, given, pc, op, include_metadata, i,
          conn, calls, group, consumed, output, result>>

-----------------------------------------------------------------------------
(* Bounds of the model *)

\* canonical identifier lists A1..Ak are drawn for k in 0..MaxIds
MaxIds == 250
\* identifier lists over ShortIds are drawn up to this length
MaxShort == 2
\* the driven queries hold up to this many batches
MaxBatches == 3
\* data points of each record the echoing service returns
MaxPoints == 3

-----------------------------------------------------------------------------
(* Values *)

None == [t |-> "None", v |-> <<>>]
Str(s) == [t |-> "str", v |-> s]
Absent == [t |-> "absent", v |-> <<>>]

\* Python truth of an optional str: None and "" are falsy
Truthy(x) == x.t = "str" /\ x.v # <<>>

\* x or y
Or(x, y) == IF Truthy(x) THEN x ELSE y

Min(a, b) == IF a < b THEN a ELSE b

\* concatenation of a sequence of sequences
RECURSIVE Flat(_)
Flat(ss) ==
    IF Len(ss) = 0 THEN <<>>
    ELSE IF Len(ss) = 1 THEN ss[1]
    ELSE LET h == Len(ss) \div 2
         IN Flat(SubSeq(ss, 1, h)) \o Flat(SubSeq(ss, h + 1, Len(ss)))

DigitChars == <<"0", "1", "2", "3", "4", "5", "6", "7", "8", "9">>

RECURSIVE Decimal(_)
Decimal(n) ==
    IF n < 10 THEN <<DigitChars[n + 1]>>
    ELSE Decimal(n \div 10) \o <<DigitChars[(n % 10) + 1]>>

\* the identifier "A<j>"
IdOf(j) == <<"A">> \o Decimal(j)

\* the identifier list A1, ..., Ak
Ids(k) == [j \in 1..k |-> IdOf(j)]

\* a few short identifiers: a plain one, the empty one, one holding ';'
ShortIds == {<<"a">>, <<>>, <<"c", ";", "d">>}

RECURSIVE SeqsUpTo(_, _)
SeqsUpTo(S, n) ==
    IF n = 0 THEN {<<>>}
    ELSE LET shorter == SeqsUpTo(S, n - 1)
         IN shorter \cup {Append(s, x) : s \in shorter, x \in S}

ShortInputs == SeqsUpTo(ShortIds, MaxShort)

-----------------------------------------------------------------------------
(* base.py: yield_chunks *)

\* itertools.islice(iterator, 0, stop): the first stop items, or all of them
islice(iterator, stop) == SubSeq(iterator, 1, Min(stop, Len(iterator)))

\* a chunk is its edge plus a boundary of n items
boundary_stop_whole(n) == n

\* a chunk is its edge plus a boundary of n - 1 items
boundary_stop(n) == n - 1

RECURSIVE yield_chunks(_, _)
yield_chunks(iterator, n) ==
    IF iterator = <<>> THEN <<>>
    ELSE LET edge == Head(iterator)
             after == Tail(iterator)
             boundary == islice(after, boundary_stop(n))
             rest == SubSeq(after, Len(boundary) + 1, Len(after))
         IN <<(<<edge>> \o boundary)>> \o yield_chunks(rest, n)

-----------------------------------------------------------------------------
(* series.py: the batches *)

\* The EIA API supports up to 100 series in a single request
ChunkSize == 100

SEP == ";"

\* the items, with sep after each one
str_join_trailing(sep, chunk) ==
    Flat([j \in 1..Len(chunk) |-> chunk[j] \o <<sep>>])

\* sep.join(chunk): the items, with sep before each one but the first
str_join(sep, chunk) ==
    Flat([j \in 1..Len(chunk) |->
            IF j = 1 THEN chunk[j] ELSE <<sep>> \o chunk[j]])

\* the body of Series.__post_init__
batches_of(ids) ==
    LET chunks == yield_chunks(ids, ChunkSize)
    IN [c \in 1..Len(chunks) |-> str_join(SEP, chunks[c])]

\* S.__post_init__(*ids), called on a constructed query
PostInit(ids) ==
    /\ constructed = "ok"
    /\ pc = "idle"
    /\ ~has_series_ids
    /\ has_series_ids' = TRUE
    /\ series_ids' = batches_of(ids)
    /\ given' = ids
    /\ op' = "post_init"
    /\ i' = 0
    /\ calls' = <<>>
    /\ consumed' = <<>>
    /\ output' = <<>>
    /\ result' = [kind |-> "none", err |-> "", value |-> <<>>]
    /\ UNCHANGED <<settings_APIKEY, constructed, args, kwarg, apikey, params,
                   url, pc, include_metadata, conn, group>>

-----------------------------------------------------------------------------
(* base.py: BaseQuery.__init__ and _configure *)

ROOT == "https://api.eia.gov"

\* Series.endpoint
endpoint == <<"s", "e", "r", "i", "e", "s">>

KEY == <<"K", "E", "Y">>
ENVKEY == <<"E", "N", "V">>

\* Series(*a, apikey=k) against the signature __init__(self, apikey=None):
\* a second positional argument, or apikey given both ways, is a TypeError
BindFails(a, k) == Len(a) >= 2 \/ (Len(a) = 1 /\ k.t # "absent")

\* the value the parameter apikey is bound to
BoundApikey(a, k) ==
    IF Len(a) = 1 THEN Str(a[1])
    ELSE IF k.t = "absent" THEN None ELSE k

\* apikey or settings.APIKEY
resolve_apikey(key, fallback) == Or(key, fallback)

\* the assertion is not made
assert_skipped(key) == TRUE

\* assert self.apikey
assert_apikey(key) == Truthy(key)

\* self.endpoint if self.endpoint.endswith("/") else f"{self.endpoint}/"
with_slash(e) ==
    IF e # <<>> /\ e[Len(e)] = "/" THEN e ELSE e \o <<"/">>

\* urljoin of a root without a path and a relative path
urljoin(root, rel) == [root |-> root, path |-> <<"/">> \o rel]

NoUrl == [root |-> "", path |-> <<>>]
NoParams == [api_key |-> <<>>, out |-> ""]
NoResult == [kind |-> "none", err |-> "", value |-> <<>>]
NoGroup == [none |-> TRUE]

Construct(a, k) ==
    /\ constructed = "none"
    /\ args' = a
    /\ kwarg' = k
    /\ IF BindFails(a, k)
       THEN /\ constructed' = "TypeError"
            /\ UNCHANGED <<apikey, params, url>>
       ELSE LET key == resolve_apikey(BoundApikey(a, k), settings_APIKEY)
            IN /\ apikey' = key
               /\ IF assert_apikey(key)
                  THEN /\ constructed' = "ok"
                       /\ params' = [api_key |-> key.v, out |-> "json"]
                       /\ url' = urljoin(ROOT, with_slash(endpoint))
                  ELSE /\ constructed' = "AssertionError"
                       /\ UNCHANGED <<params, url>>
    /\ UNCHANGED <<settings_APIKEY, has_series_ids, series_ids, given, pc, op,
                   include_metadata, i, conn, calls, group, consumed, output,
                   result>>

-----------------------------------------------------------------------------
(* The remote service *)

\* s.split(sep): the pieces between the separators, [""] for "".
\* The pieces of a string are those of its halves, the last piece of the
\* first half running on into the first piece of the second.
RECURSIVE str_split(_, _)
str_split(s, sep) ==
    IF Len(s) = 0 THEN << <<>> >>
    ELSE IF Len(s) = 1 THEN (IF s[1] = sep THEN << <<>>, <<>> >> ELSE <<s>>)
    ELSE LET h == Len(s) \div 2
             L == str_split(SubSeq(s, 1, h), sep)
             R == str_split(SubSeq(s, h + 1, Len(s)), sep)
         IN SubSeq(L, 1, Len(L) - 1) \o <<L[Len(L)] \o R[1]>> \o Tail(R)

\* one series object: metadata plus "data", a list of [period, value]
Record(id, j, n) ==
    [series_id |-> id,
     units |-> "quads",
     data |-> [p \in 1..n |-> <<2000 + p, (10 * j) + p>>]]

Request(b) == [command |-> "series", series_id |-> b]

\* a response body without the series field
NoSeriesBody(b) == [request |-> Request(b)]

\* a response body with an empty series list
EmptyBody(b) == [request |-> Request(b), series |-> <<>>]

\* one series object for each identifier of the payload
EchoBody(b) ==
    LET ids == str_split(b, SEP)
    IN [request |-> Request(b),
        series |-> [j \in 1..Len(ids) |-> Record(ids[j], j, MaxPoints)]]

\* series objects with different numbers of data points, one with none
UnevenBody(b) ==
    [request |-> Request(b),
     series |-> <<Record(<<"x">>, 1, 2), Record(<<"y">>, 2, 0),
                  Record(<<"z">>, 3, 1)>>]

Bodies(b) == {NoSeriesBody(b), EmptyBody(b), EchoBody(b), UnevenBody(b)}

-----------------------------------------------------------------------------
(* base.py: _post and _get; series.py: _get_data, parse, to_dict,            *)
(* to_dataframe.  A coroutine is cut at its awaits: the request is issued   *)
(* inside "async with httpx.AsyncClient()", and the step that resumes it    *)
(* leaves the "async with" block whether the await returned or raised.      *)

\* the connection is released only when the request succeeded
aexit_on_success(c, failed) == IF failed THEN c ELSE c - 1

\* AsyncClient.__aexit__: the connection is released on every exit path
aexit(c, failed) == c - 1

\* an exception is swallowed and what was collected so far is returned
raise_partial(err, collected) == [kind |-> "list", err |-> "", value |-> collected]

\* an exception leaves _post, _get_data, parse and asyncio.run uncaught
raise(err, collected) == [kind |-> "raise", err |-> err, value |-> <<>>]

\* the first batch again
batch_first(ids, n) == ids[1]

\* "for series_ids in self.series_ids": the batch after n finished ones
batch_at(ids, n) == ids[n + 1]

\* group.get("series", [])
get_series(g) == IF "series" \in DOMAIN g THEN g.series ELSE <<>>

\* the series of a group are put before what was collected
extend_front(out, series) == series \o out

\* "for series in ...: output.append(series)"
extend(out, series) == out \o series

StartCollect(name, meta) ==
    /\ constructed = "ok"
    /\ pc = "idle"
    /\ op' = name
    /\ include_metadata' = meta
    /\ pc' = "next"
    /\ i' = 0
    /\ calls' = <<>>
    /\ consumed' = <<>>
    /\ output' = <<>>
    /\ group' = NoGroup
    /\ result' = NoResult
    /\ UNCHANGED <<settings_APIKEY, constructed, args, kwarg, apikey, params,
                   url, has_series_ids, series_ids, given, conn>>

\* to_dict: asyncio.run(self.parse()) starts
ToDict == StartCollect("to_dict", TRUE)

\* to_dataframe(include_metadata): asyncio.run(self.parse()) starts
ToDataframe(meta) == StartCollect("to_dataframe", meta)

Finish(r) ==
    /\ result' = r
    /\ pc' = "idle"
    /\ group' = NoGroup

\* _get_data reads self.series_ids, which nothing has set
GetDataNoAttribute ==
    /\ pc = "next"
    /\ ~has_series_ids
    /\ Finish(raise("AttributeError", output))
    /\ UNCHANGED <<settings_APIKEY, constructed, args, kwarg, apikey, params,
                   url, has_series_ids, series_ids, given, op,
                   include_metadata, i, conn, calls, consumed, output>>

\* _get_data takes the next batch and _post sends it
PostEnter ==
    /\ pc = "next"
    /\ has_series_ids
    /\ i < Len(series_ids)
    /\ conn' = conn + 1
    /\ calls' = Append(calls, [verb |-> "POST", url |-> url, params |-> params,
                               data |-> [series_id |-> batch_at(series_ids, i)]])
    /\ pc' = "inflight"
    /\ UNCHANGED <<settings_APIKEY, constructed, args, kwarg, apikey, params,
                   url, has_series_ids, series_ids, given, op,
                   include_metadata, i, group, consumed, output, result>>

\* client.post raises a transport error
PostTransportError ==
    /\ pc = "inflight"
    /\ conn' = aexit(conn, TRUE)
    /\ Finish(raise("TransportError", output))
    /\ UNCHANGED <<settings_APIKEY, constructed, args, kwarg, apikey, params,
                   url, has_series_ids, series_ids, given, op,
                   include_metadata, i, calls, consumed, output>>

\* client.post returns, response.json() raises
PostInvalidBody ==
    /\ pc = "inflight"
    /\ conn' = aexit(conn, FALSE)
    /\ Finish(raise("JSONDecodeError", output))
    /\ UNCHANGED <<settings_APIKEY, constructed, args, kwarg, apikey, params,
                   url, has_series_ids, series_ids, given, op,
                   include_metadata, i, calls, consumed, output>>

\* client.post returns, response.json() is body, _get_data yields it
PostReturn(body) ==
    /\ pc = "inflight"
    /\ conn' = aexit(conn, FALSE)
    /\ group' = body
    /\ pc' = "yielded"
    /\ UNCHANGED <<settings_APIKEY, constructed, args, kwarg, apikey, params,
                   url, has_series_ids, series_ids, given, op,
                   include_metadata, i, calls, consumed, output, result>>

\* the service answers the payload it was sent
PostReturnAny ==
    /\ pc = "inflight"
    /\ \E body \in Bodies(calls[Len(calls)].data.series_id) : PostReturn(body)

\* parse appends the series of the group; _get_data's loop moves on
ParseGroup ==
    /\ pc = "yielded"
    /\ output' = extend(output, get_series(group))
    /\ consumed' = Append(consumed, group)
    /\ i' = i + 1
    /\ group' = NoGroup
    /\ pc' = "next"
    /\ UNCHANGED <<settings_APIKEY, constructed, args, kwarg, apikey, params,
                   url, has_series_ids, series_ids, given, op,
                   include_metadata, conn, calls, result>>

-----------------------------------------------------------------------------
(* series.py: to_dataframe's table.  A table is the sequence of its rows;   *)
(* a row is its index label and its cells, a record keyed by column.        *)

\* pd.DataFrame(data, columns=["period", "value"]): rows labelled 0..n-1
DataFrame(data) ==
    [n \in 1..Len(data) |->
        [index |-> n - 1,
         cells |-> [period |-> data[n][1], value |-> data[n][2]]]]

\* what is left of the mapping after series.pop("data")
popped(series) == [k \in (DOMAIN series) \ {"data"} |-> series[k]]

\* df.assign(**series): every row gets the columns, a given column replaces
assign(df, columns) ==
    [n \in 1..Len(df) |-> [df[n] EXCEPT !.cells = columns @@ df[n].cells]]

\* the table of one record
record_frame(series, meta) ==
    LET df == DataFrame(series.data)
    IN IF meta THEN assign(df, popped(series)) ELSE df

\* pd.concat(data): the rows keep the labels of their own tables
concat_keep_index(frames) == Flat(frames)

\* pd.concat(data, ignore_index=True): the rows are labelled 0..N-1
concat(frames) ==
    LET rows == Flat(frames)
    IN [n \in 1..Len(rows) |-> [rows[n] EXCEPT !.index = n - 1]]

\* the body of to_dataframe after the records were collected;
\* pd.concat of an empty list raises ValueError
to_dataframe_of(records, meta) ==
    LET data == [r \in 1..Len(records) |-> record_frame(records[r], meta)]
    IN IF data = <<>>
       THEN raise("ValueError", <<>>)
       ELSE [kind |-> "table", err |-> "", value |-> concat(data)]

\* _get_data is exhausted, parse returns output, the operation returns
ParseReturn ==
    /\ pc = "next"
    /\ has_series_ids
    /\ i = Len(series_ids)
    /\ Finish(IF op = "to_dict"
              THEN [kind |-> "list", err |-> "", value |-> output]
              ELSE to_dataframe_of(output, include_metadata))
    /\ UNCHANGED <<settings_APIKEY, constructed, args, kwarg, apikey, params,
                   url, has_series_ids, series_ids, given, op,
                   include_metadata, i, conn, calls, consumed, output>>

-----------------------------------------------------------------------------
(* base.py: _get, driven by asyncio.run(query._get(data)) *)

\* what a caller passes as data: nothing, an extra field, a default replaced
GetData == {<<>>, [series_id |-> <<"a">>], [out |-> "xml"]}

\* {**self._params, **data}
merged(defaults, data) == data @@ defaults

GetEnter(data) ==
    /\ constructed = "ok"
    /\ pc = "idle"
    /\ op' = "get"
    /\ conn' = conn + 1
    /\ calls' = <<[verb |-> "GET", url |-> url, params |-> merged(params, data),
                   data |-> <<>>]>>
    /\ pc' = "get_inflight"
    /\ i' = 0
    /\ consumed' = <<>>
    /\ output' = <<>>
    /\ group' = NoGroup
    /\ result' = NoResult
    /\ UNCHANGED <<settings_APIKEY, constructed, args, kwarg, apikey, params,
                   url, has_series_ids, series_ids, given, include_metadata>>

\* client.get raises a transport error
GetTransportError ==
    /\ pc = "get_inflight"
    /\ conn' = aexit(conn, TRUE)
    /\ Finish(raise("TransportError", <<>>))
    /\ UNCHANGED <<settings_APIKEY, constructed, args, kwarg, apikey, params,
                   url, has_series_ids, series_ids, given, op,
                   include_metadata, i, calls, consumed, output>>

\* client.get returns, response.json() raises
GetInvalidBody ==
    /\ pc = "get_inflight"
    /\ conn' = aexit(conn, FALSE)
    /\ Finish(raise("JSONDecodeError", <<>>))
    /\ UNCHANGED <<settings_APIKEY, constructed, args, kwarg, apikey, params,
                   url, has_series_ids, series_ids, given, op,
                   include_metadata, i, calls, consumed, output>>

\* client.get returns, response.json() is returned as it is
GetReturn(body) ==
    /\ pc = "get_inflight"
    /\ conn' = aexit(conn, FALSE)
    /\ Finish([kind |-> "mapping", err |-> "", value |-> <<body>>])
    /\ UNCHANGED <<settings_APIKEY, constructed, args, kwarg, apikey, params,
                   url, has_series_ids, series_ids, given, op,
                   include_metadata, i, calls, consumed, output>>

-----------------------------------------------------------------------------
(* The specifications *)

\* the calls a caller makes of the constructor
ConstructArgs == ShortInputs
Kwargs == {Absent, None, Str(<<>>), Str(KEY)}

\* numbers of identifiers that give 0 to MaxBatches batches
DrivenCounts == {0, 2} \cup {(b - 1) * ChunkSize + 1 : b \in 1..MaxBatches}

\* the identifier lists of the driven queries
DrivenInputs == {Ids(k) : k \in DrivenCounts} \cup ShortInputs

\* the identifier lists the batching is applied to
BatchInputs == {Ids(k) : k \in 0..MaxIds} \cup ShortInputs

Blank ==
    /\ has_series_ids = FALSE
    /\ series_ids = <<>>
    /\ given = <<>>
    /\ pc = "idle"
    /\ op = "none"
    /\ include_metadata = TRUE
    /\ i = 0
    /\ conn = 0
    /\ calls = <<>>
    /\ group = NoGroup
    /\ consumed = <<>>
    /\ output = <<>>
    /\ result = NoResult

\* before the constructor is called
Init ==
    /\ settings_APIKEY \in {None, Str(ENVKEY)}
    /\ constructed = "none"
    /\ apikey = Absent
    /\ params = NoParams
    /\ url = NoUrl
    /\ args = <<>>
    /\ kwarg = Absent
    /\ Blank

Next ==
    \/ \E a \in ConstructArgs, k \in Kwargs : Construct(a, k)
    \/ \E ids \in DrivenInputs : PostInit(ids)
    \/ ToDict
    \/ \E meta \in BOOLEAN : ToDataframe(meta)
    \/ GetDataNoAttribute
    \/ PostEnter
    \/ PostTransportError
    \/ PostInvalidBody
    \/ PostReturnAny
    \/ ParseGroup
    \/ ParseReturn
    \/ \E data \in GetData : GetEnter(data)
    \/ GetTransportError
    \/ GetInvalidBody
    \/ GetReturn(NoSeriesBody(<<>>))

Spec == Init /\ [][Next]_vars

\* the query right after Series(apikey="KEY")
InitBatch ==
    /\ settings_APIKEY \in {None, Str(ENVKEY)}
    /\ constructed = "ok"
    /\ apikey = Str(KEY)
    /\ params = [api_key |-> KEY, out |-> "json"]
    /\ url = urljoin(ROOT, with_slash(endpoint))
    /\ args = <<>>
    /\ kwarg = Str(KEY)
    /\ Blank

NextBatch == \E ids \in BatchInputs : PostInit(ids)

SpecBatch == InitBatch /\ [][NextBatch]_vars

-----------------------------------------------------------------------------
(* Properties *)

Collecting == op \in {"to_dict", "to_dataframe"}

\* the operation has ended, by a return or by an exception
Ended == pc = "idle" /\ result.kind # "none"

\* every submit was answered and every answer consumed
Drained ==
    /\ has_series_ids
    /\ Len(calls) = Len(series_ids)
    /\ Len(consumed) = Len(series_ids)

\* the payloads submitted so far
Posts == [n \in 1..Len(calls) |-> calls[n].data.series_id]

NoSep(ids) == \A j \in 1..Len(ids) : \A n \in 1..Len(ids[j]) : ids[j][n] # SEP

\* the identifiers of a batch
Unbatch(b) == str_split(b, SEP)

\* where identifier j starts in the join of ids, less one
Offset(ids, j) == Len(Flat(SubSeq(ids, 1, j - 1))) + (j - 1)

\* b is the identifiers in their order with one separator between neighbours
IsJoined(b, ids) ==
    /\ Len(b) = Offset(ids, Len(ids) + 1) - (IF ids = <<>> THEN 0 ELSE 1)
    /\ \A j \in 1..Len(ids) :
          /\ SubSeq(b, Offset(ids, j) + 1, Offset(ids, j) + Len(ids[j])) = ids[j]
          /\ j < Len(ids) => b[Offset(ids, j + 1)] = SEP

\* the series list a response declares
SeriesOf(body) == IF "series" \in DOMAIN body THEN body.series ELSE <<>>

CredentialGiven == Truthy(kwarg) \/ Truthy(settings_APIKEY)

\* C1: a Series constructed with k >= 1 identifiers, a credential being
\* available, is constructed and holds the batches of those identifiers.
C1_ConstructHoldsBatches ==
    [][(constructed = "none" /\ constructed' # "none"
            /\ Len(args') >= 1 /\ (\A j \in 1..Len(args') : args'[j] # <<>>)
            /\ CredentialGiven')
        => (constructed' = "ok" /\ has_series_ids'
            /\ series_ids' = batches_of(args'))]_vars

\* C2 as stated: fewer than 100 identifiers, none included, give exactly one
\* batch, the identifiers joined in order (the empty string for none).
C2_OneBatchBelowLimit ==
    (has_series_ids /\ Len(given) < ChunkSize)
        => (Len(series_ids) = 1 /\ IsJoined(series_ids[1], given))

\* C2 amended: 1 to 99 identifiers give exactly one batch, the identifiers
\* joined in order; no identifier gives no batch at all.
C2_OneBatchFromOneToLimit ==
    has_series_ids =>
        /\ (1 <= Len(given) /\ Len(given) < ChunkSize)
              => (Len(series_ids) = 1 /\ IsJoined(series_ids[1], given))
        /\ Len(given) = 0 => series_ids = <<>>

C2_Witness ==
    /\ has_series_ids
    /\ Len(given) = ChunkSize - 1
    /\ Len(series_ids) = 1

\* C3: for identifiers without ';', every batch holds at most 100 of them,
\* the batches split and concatenated in order are the input, and 100, 101
\* and 250 identifiers give 1, 2 and 3 batches.
C3_BatchesPartitionInput ==
    (has_series_ids /\ NoSep(given)) =>
        /\ \A c \in 1..Len(series_ids) : Len(Unbatch(series_ids[c])) <= ChunkSize
        /\ Flat([c \in 1..Len(series_ids) |-> Unbatch(series_ids[c])]) = given
        /\ Len(given) = 100 => Len(series_ids) = 1
        /\ Len(given) = 101 => Len(series_ids) = 2
        /\ Len(given) = 250 => Len(series_ids) = 3

C3_Witness ==
    /\ has_series_ids
    /\ Len(given) = 250
    /\ Len(series_ids) = 3
    /\ Len(Unbatch(series_ids[3])) = 50

\* C4: when the apikey parameter is None or empty and settings.APIKEY is
\* missing, construction fails with the assertion error and nothing was sent.
C4_MissingCredentialFails ==
    (/\ constructed # "none"
     /\ ~BindFails(args, kwarg)
     /\ ~Truthy(BoundApikey(args, kwarg))
     /\ ~Truthy(settings_APIKEY))
        => (/\ constructed = "AssertionError"
            /\ calls = <<>>
            /\ conn = 0
            /\ op = "none")

C4_Witness ==
    /\ constructed = "AssertionError"
    /\ kwarg = Str(<<>>)
    /\ calls = <<>>

\* C5: a collection submits the stored batches in their order, one submit
\* each; a submit is in flight only when every earlier response has been
\* consumed, never two at a time; a collection that drains the batches has
\* submitted every one of them.
C5_SubmitsSequentialInBatchOrder ==
    Collecting =>
        /\ \A n \in 1..Len(calls) : calls[n].verb = "POST"
        /\ has_series_ids => /\ Len(calls) <= Len(series_ids)
                             /\ Posts = SubSeq(series_ids, 1, Len(calls))
        /\ ~has_series_ids => calls = <<>>
        /\ Len(calls) - Len(consumed) \in {0, 1}
        /\ pc = "inflight" => (conn = 1 /\ Len(consumed) = Len(calls) - 1)
        /\ pc = "yielded" => (conn = 0 /\ Len(consumed) = Len(calls) - 1)
        /\ pc = "next" => (conn = 0 /\ Len(consumed) = Len(calls))
        /\ (Ended /\ result.kind \in {"list", "table"}) => Posts = series_ids

C5_Witness ==
    /\ op = "to_dict"
    /\ pc = "inflight"
    /\ Len(calls) = 3
    /\ Len(consumed) = 2

\* C6: a collection in which a submit failed ends by raising that failure:
\* the failed submit is its last request, no batch was submitted twice, and
\* the records of the batches parsed before are not returned.
C6_FailureAbortsCollection ==
    (Collecting /\ pc = "idle" /\ Len(calls) > Len(consumed)) =>
        /\ result.kind = "raise"
        /\ result.err \in {"TransportError", "JSONDecodeError"}
        /\ result.value = <<>>
        /\ Len(calls) = Len(consumed) + 1
        /\ Posts = SubSeq(series_ids, 1, Len(calls))

C6_Witness ==
    /\ Collecting
    /\ pc = "idle"
    /\ result.err = "TransportError"
    /\ Len(consumed) = 1
    /\ output # <<>>
    /\ Len(calls) = 2
    /\ Len(series_ids) = 3

\* C7: a collection that drains the batches and yields no record returns
\* an empty list from to_dict and an empty table from to_dataframe.
C7_NoRecordsReturnsEmpty ==
    (Collecting /\ Ended /\ Drained /\ output = <<>>) =>
        /\ op = "to_dict" => (result.kind = "list" /\ result.value = <<>>)
        /\ op = "to_dataframe" => (result.kind = "table" /\ result.value = <<>>)

\* C8: the collected list is the series lists of the consumed responses,
\* concatenated in batch order; a response without the series field adds
\* nothing; to_dict returns that list, which has one entry per identifier
\* when every response has one entry for each identifier of its batch.
C8_OutputIsConcatenatedSeries ==
    Collecting =>
        /\ output = Flat([n \in 1..Len(consumed) |-> SeriesOf(consumed[n])])
        /\ (Ended /\ Drained) =>
              /\ op = "to_dict" => (result.kind = "list" /\ result.value = output)
              /\ (/\ NoSep(given)
                  /\ \A n \in 1..Len(consumed) :
                        Len(SeriesOf(consumed[n])) = Len(Unbatch(series_ids[n])))
                    => Len(output) = Len(given)

C8_Witness ==
    /\ op = "to_dict"
    /\ result.kind = "list"
    /\ Len(consumed) = 3
    /\ "series" \notin DOMAIN consumed[2]
    /\ Len(SeriesOf(consumed[1])) = ChunkSize
    /\ Len(SeriesOf(consumed[3])) = 3
    /\ Len(result.value) = ChunkSize + 3

\* the [period, value] pairs of the records, in record order
Pairs(records) == Flat([r \in 1..Len(records) |-> records[r].data])

\* C9: for one or more records, to_dataframe returns a table with one row
\* for each [period, value] pair, in record order and then pair order, the
\* rows labelled 0..N-1.
C9_TableRowsDense ==
    (op = "to_dataframe" /\ Ended /\ Drained /\ Len(output) >= 1) =>
        LET pairs == Pairs(output)
            rows == result.value
        IN /\ result.kind = "table"
           /\ Len(rows) = Len(pairs)
           /\ rows = [n \in 1..Len(pairs) |->
                        [rows[n] EXCEPT !.index = n - 1,
                                        !.cells.period = pairs[n][1],
                                        !.cells.value = pairs[n][2]]]

C9_Witness ==
    /\ op = "to_dataframe"
    /\ result.kind = "table"
    /\ Len(output) = 2
    /\ \A r \in 1..2 : Len(output[r].data) = 3
    /\ Len(result.value) = 6
    /\ result.value[6].index = 5

\* C10: a request holds one connection from its start to its end, whatever
\* the end: at most one connection is open, and none once the operation
\* has returned or raised.
C10_ConnectionScopedToCall ==
    /\ conn \in {0, 1}
    /\ conn = 1 <=> pc \in {"inflight", "get_inflight"}
    /\ pc = "idle" => conn = 0

C10_Witness ==
    /\ Collecting
    /\ pc = "idle"
    /\ result.err = "TransportError"
    /\ Len(calls) = 2
    /\ conn = 0

====
